---- MODULE Spec2Model ----
(***************************************************************************)
(* A model of the concurrent subsystem layer of the Accepted editor:       *)
(*   - Buffer's compile pipeline hooks          (src/src/buffer.rs)        *)
(*   - the language-server client and workers   (src/src/lsp.rs)           *)
(*   - the mode/macro orchestrator              (src/src/buffer_mode.rs)   *)
(*   - the render pass and its line cache       (src/src/buffer.rs)        *)
(* Option<T> is modelled as a sequence: <<>> is None, <<x>> is Some(x).    *)
(***************************************************************************)
EXTENDS Integers, Sequences, FiniteSets, TLC

\* ------------------------------------------------------------------ bounds
MaxVersion == 1
MaxJobs == 3
MaxReq == 2
MaxSrvMsgs == 3
NumLines == 3
MaxEdits == 3
MaxMacro == 3
MaxDepth == 2
MaxRenderEdits == 2
MaxFrameMacro == 2

\* ----------------------------------------------------------------- helpers
None == <<>>
Some(x) == <<x>>
Last(s) == s[Len(s)]
Min(a, b) == IF a < b THEN a ELSE b
Max(a, b) == IF a < b THEN b ELSE a

\* ------------------------------------------------------------------ config
\* File extensions a path may carry.
Exts == {"rs", "txt"}

\* The built-in configuration (DEFAULT_CONFIG) and the user's configuration
\* (Config::default(): no file table, no file_default), as the set of keys each
\* LanguageConfig holds.
DefaultConfig ==
    [file |-> [e \in {"rs"} |-> {"Compiler", "LSP"}], file_default |-> Some({})]
UserConfig == [file |-> [e \in {} |-> {}], file_default |-> None]

\* Config::get: the extension's table first, then file_default.
ConfigGet(cfg, key, ext) ==
    LET in_default == cfg.file_default # None /\ key \in cfg.file_default[1]
    IN  IF ext # None
        THEN \/ (ext[1] \in DOMAIN cfg.file /\ key \in cfg.file[ext[1]])
             \/ in_default
        ELSE in_default

\* ConfigWithDefault::get: the user's configuration, else the built-in one.
ConfigWithDefaultGet(key, ext) ==
    ConfigGet(UserConfig, key, ext) \/ ConfigGet(DefaultConfig, key, ext)

\* --------------------------------------------------------------- variables
VARIABLES
    \* core (text storage)
    buffer_changed,         \* core.buffer_changed(): the document version
    text,                   \* per row, the version of its last edit
    dirty_from,             \* core.dirty_from
    cursor,                 \* core.cursor().row
    \* Buffer, render pass
    cache_lines,            \* DrawCache: per row, Option of the cached entry
    watermark,              \* DrawCache: the dirty-from watermark
    buffer_update,          \* the version the cache was last synced with
    row_offset,
    show_cursor_on_draw,    \* "None" | "Show" | "ShowMiddle"
    drawPanic,              \* history: get_line(i).unwrap() failed
    drawn,                  \* history: rows the last render pass visited
    recomputed,             \* history: rows the last render pass recomputed
    sync,                   \* history: the dirty sync of the last render pass
    scen,                   \* history: stage of the edit-to-render scenario
    scenV0,                 \* history: the version when the scenario began
    \* BufferMode
    mode,                   \* the active mode
    is_recording,
    dot_macro,
    recording_macro,
    exited,                 \* BufferMode::event returned true
    diverged,               \* the replay recursion did not come back
    pre,                    \* history: the state a DoMacro event was fed in
    lastEv,                 \* history: the event the frame loop fed last
    refed,                  \* history: a replayed event was recorded
    badInit,                \* history: an event reached a mode not initialised once
    trace,                  \* history: events fed since a RecordMacro event
    traceDone,              \* history: trace ended with Return(_, true)
    \* Buffer, compile pipeline
    path,                   \* storage: Option of the path's extension
    compiler,               \* Buffer.compiler is Some
    last_compiler_submit,   \* CompileId
    last_compiler_compiled, \* CompileId
    last_compiler_result,   \* Option<CompileResult>
    jobs,                   \* jobs handed to the compile worker, not finished
    chan,                   \* the worker's result channel
    nJobs,                  \* number of jobs handed off so far
    recvLog,                \* history: results delivered to a live channel
    lastCall,               \* history: the last Buffer::compile call
    cop,                    \* history: the last compile-pipeline operation
    waiting,                \* wait_compile_message: "no" | "check" | "recv"
    \* Buffer.lsp: the LSPClient, its two workers and the server process
    lsp,                    \* "none" | "live" | "dropped" (the Buffer is gone)
    proc,                   \* the server process: "running" | "dead"
    wpc,                    \* writer worker: "wait_init" | "serve" | "mid" | "done"
    wreq,                   \* the request the writer worker is serving
    rpc,                    \* reader worker: "read" | "done"
    rend,                   \* how the reader worker ended
    initChan,               \* acknowledgments waiting in the init channel
    creq,                   \* completion_req channel: queued (src, cursor)
    compChan,               \* completion_recv channel: buffered batches
    wire,                   \* what has been written to the server's stdin
    pollResult,             \* what the last LSPClient::poll returned
    reqCount,               \* request_completion calls on this client
    srvCount,               \* messages the reader worker has read
    initSeen,               \* history: an initialize success was observed
    delivered,              \* history: batches the reader worker has sent
    pollMark,               \* history: Len(delivered) at the last two polls
    lastRead,               \* history: kind of the message read last
    pollsAfterEnd,          \* history: polls since the reader ended (0..2)
    lop,                    \* history: the last operation on the client
    \* main
    frame,                  \* the frame loop: "top" | "recv" | "draw" | "stopped"
    fill                    \* history: the background fills of the current frame

compileVars ==
    <<path, compiler, last_compiler_submit, last_compiler_compiled,
      last_compiler_result, jobs, chan, nJobs, recvLog, lastCall, cop, waiting>>

lspVars ==
    <<lsp, proc, wpc, wreq, rpc, rend, initChan, creq, compChan, wire,
      pollResult, reqCount, srvCount, initSeen, delivered, pollMark, lastRead,
      pollsAfterEnd, lop>>

coreVars == <<buffer_changed, text, dirty_from, cursor>>

drawVars ==
    <<cache_lines, watermark, buffer_update, row_offset, show_cursor_on_draw,
      drawPanic, drawn, recomputed, sync, scen, scenV0>>

modeVars ==
    <<mode, is_recording, dot_macro, recording_macro, exited, diverged, pre,
      lastEv, refed, badInit, trace, traceDone>>

frameVars == <<frame, fill>>

vars == <<coreVars, compileVars, lspVars, modeVars, drawVars, frameVars>>

\* -------------------------------------------------------------------- core
Rows == 0..(NumLines - 1)

\* The text storage as a value.
CoreState ==
    [buffer_changed |-> buffer_changed, text |-> text, dirty_from |-> dirty_from,
     cursor |-> cursor]

\* One logical edit at the cursor, on a row: the version goes up by exactly
\* one, the row's text changes, dirty_from is lowered to the row.
CoreEdit(core, row) ==
    [buffer_changed |-> core.buffer_changed + 1,
     text |-> [core.text EXCEPT ![row] = core.buffer_changed + 1],
     dirty_from |-> Min(core.dirty_from, row),
     cursor |-> row]

SetCore(core) ==
    /\ buffer_changed' = core.buffer_changed
    /\ text' = core.text
    /\ dirty_from' = core.dirty_from
    /\ cursor' = core.cursor

InitCore ==
    /\ buffer_changed = 0
    /\ text = [r \in Rows |-> 0]
    /\ dirty_from = 0
    /\ cursor = 0

\* ------------------------------------------------------- compile pipeline
CompileIdDefault == [id |-> 0, is_optimize |-> FALSE]

\* A plausible slip: the early return is missing, every call is a submission.
CompileIsDuplicate_Never(last, cid) == FALSE

\* A plausible slip: de-duplication on the document version alone.
CompileIsDuplicate_VersionOnly(last, cid) == last.id = cid.id

\* Buffer::compile, the early return.
CompileIsDuplicate(last, cid) == last = cid

\* A plausible slip: a new submission cancels the jobs still in flight.
Compile_CancelOlder(is_optimize) ==
    LET cid == [id |-> buffer_changed, is_optimize |-> is_optimize]
        dup == CompileIsDuplicate(last_compiler_submit, cid)
        hand == ~dup /\ path # None /\ compiler
    IN  /\ hand => nJobs < MaxJobs
        /\ last_compiler_submit' = IF dup THEN last_compiler_submit ELSE cid
        /\ jobs' = IF hand THEN <<[id |-> cid, serial |-> nJobs + 1]>> ELSE jobs
        /\ nJobs' = IF hand THEN nJobs + 1 ELSE nJobs
        /\ lastCall' = Some([pair |-> cid,
                             handed |-> hand,
                             configured |-> (path # None /\ compiler),
                             prev |-> IF lastCall = None THEN None
                                      ELSE Some(lastCall[1].pair)])
        /\ cop' = "compile"
        /\ UNCHANGED <<path, compiler, last_compiler_compiled,
                       last_compiler_result, chan, recvLog, waiting>>

\* Buffer::compile(is_optimize).
Compile(is_optimize) ==
    LET cid == [id |-> buffer_changed, is_optimize |-> is_optimize]
        dup == CompileIsDuplicate(last_compiler_submit, cid)
        hand == ~dup /\ path # None /\ compiler
    IN  /\ hand => nJobs < MaxJobs
        /\ last_compiler_submit' = IF dup THEN last_compiler_submit ELSE cid
        /\ jobs' = IF hand THEN Append(jobs, [id |-> cid, serial |-> nJobs + 1])
                   ELSE jobs
        /\ nJobs' = IF hand THEN nJobs + 1 ELSE nJobs
        /\ lastCall' = Some([pair |-> cid,
                             handed |-> hand,
                             configured |-> (path # None /\ compiler),
                             prev |-> IF lastCall = None THEN None
                                      ELSE Some(lastCall[1].pair)])
        /\ cop' = "compile"
        /\ UNCHANGED <<path, compiler, last_compiler_compiled,
                       last_compiler_result, chan, recvLog, waiting>>

\* Buffer::set_language, the compiler: a new Compiler (or none) replaces the
\* old one, whose worker and channel are dropped.
SetCompiler(ext) ==
    /\ compiler' = ConfigWithDefaultGet("Compiler", ext)
    /\ jobs' = <<>>
    /\ chan' = <<>>
    /\ recvLog' = SubSeq(recvLog, 1, Len(recvLog) - Len(chan))
    /\ cop' = "set_language"
    /\ UNCHANGED <<last_compiler_submit, last_compiler_compiled,
                   last_compiler_result, nJobs, lastCall, waiting>>

\* The compile worker finishes one of the jobs in flight and sends its result.
\* Jobs are not cancelled and may finish in any order.
WorkerFinish(i) ==
    /\ i \in 1..Len(jobs)
    /\ LET job == jobs[i]
           msg == [id |-> job.id, res |-> [messages |-> job.serial]]
       IN  /\ chan' = Append(chan, msg)
           /\ recvLog' = Append(recvLog, msg)
    /\ jobs' = [k \in 1..(Len(jobs) - 1) |-> IF k < i THEN jobs[k] ELSE jobs[k + 1]]
    /\ cop' = "worker"
    /\ UNCHANGED <<path, compiler, last_compiler_submit,
                   last_compiler_compiled, last_compiler_result, nJobs, lastCall, waiting>>

\* A plausible slip: a result is kept only when its id is not older than the
\* one already held.
RECURSIVE PollLoop_NewestId(_, _, _)
PollLoop_NewestId(ch, compiled, result) ==
    IF ch = <<>> THEN <<compiled, result>>
    ELSE IF Head(ch).id.id >= compiled.id
         THEN PollLoop_NewestId(Tail(ch), Head(ch).id, Some(Head(ch).res))
         ELSE PollLoop_NewestId(Tail(ch), compiled, result)

\* Buffer::poll_compile_message, the while-let loop over try_recv.
RECURSIVE PollLoop(_, _, _)
PollLoop(ch, compiled, result) ==
    IF ch = <<>> THEN <<compiled, result>>
    ELSE PollLoop(Tail(ch), Head(ch).id, Some(Head(ch).res))

\* Buffer::poll_compile_message.
PollCompileMessage ==
    /\ IF compiler
       THEN LET r == PollLoop(chan, last_compiler_compiled, last_compiler_result)
            IN  /\ last_compiler_compiled' = r[1]
                /\ last_compiler_result' = r[2]
                /\ chan' = <<>>
       ELSE UNCHANGED <<last_compiler_compiled, last_compiler_result, chan>>
    /\ cop' = "poll"
    /\ UNCHANGED <<path, compiler, last_compiler_submit, jobs, nJobs, recvLog,
                   lastCall, waiting>>

\* Compiler::is_compiling: a job handed to the worker has not finished.
WorkerIsRunning == jobs # <<>>

\* Buffer::is_compiling.
IsCompiling == compiler /\ WorkerIsRunning

\* Buffer::wait_compile_message is called.
WaitCompileMessage ==
    /\ waiting = "no"
    /\ waiting' = "check"
    /\ cop' = "wait_call"
    /\ UNCHANGED <<path, compiler, last_compiler_submit, last_compiler_compiled,
                   last_compiler_result, jobs, chan, nJobs, recvLog, lastCall>>

\* Buffer::wait_compile_message, the loop condition: the call returns when
\* nothing is compiling.
WaitCheck ==
    /\ waiting = "check"
    /\ waiting' = IF IsCompiling THEN "recv" ELSE "no"
    /\ cop' = IF IsCompiling THEN "wait_loop" ELSE "wait_return"
    /\ UNCHANGED <<path, compiler, last_compiler_submit, last_compiler_compiled,
                   last_compiler_result, jobs, chan, nJobs, recvLog, lastCall>>

\* Buffer::wait_compile_message, the loop body: recv_compile_result blocks
\* until a result is in the channel, and the result is stored.
WaitRecv ==
    /\ waiting = "recv"
    /\ chan # <<>>
    /\ last_compiler_compiled' = Head(chan).id
    /\ last_compiler_result' = Some(Head(chan).res)
    /\ chan' = Tail(chan)
    /\ waiting' = "check"
    /\ cop' = "wait_recv"
    /\ UNCHANGED <<path, compiler, last_compiler_submit, jobs, nJobs, recvLog,
                   lastCall>>

\* A committed edit of the text storage: the version counter goes up by one.
EditVersion ==
    /\ buffer_changed < MaxVersion
    /\ SetCore(CoreEdit(CoreState, 0))

InitCompile ==
    /\ path = None
    /\ compiler = ConfigWithDefaultGet("Compiler", None)
    /\ last_compiler_submit = CompileIdDefault
    /\ last_compiler_compiled = CompileIdDefault
    /\ last_compiler_result = None
    /\ jobs = <<>>
    /\ chan = <<>>
    /\ nJobs = 0
    /\ recvLog = <<>>
    /\ lastCall = None
    /\ cop = "new"
    /\ waiting = "no"

\* ------------------------------------------------------- protocol client
\* What the server's output stream can hold next, by what the reader worker
\* makes of it: a success response with the initialize id, one with the
\* completion id (a well-formed or an ill-formed result), anything else that
\* is framed well (another id, a failure, a notification, unparsable JSON),
\* and the framing errors.
MsgKinds ==
    {"init_ok", "completion", "bad_result", "ignored", "bad_json", "bad_header",
     "no_length", "bad_length", "short_read", "non_utf8"}

\* A plausible slip: a lossy UTF-8 conversion, so the payload is parsed (and
\* ignored as unparsable) instead of ending the worker.
ReaderVerdict_LossyUtf8(kind) ==
    CASE kind = "init_ok" -> "init"
      [] kind = "completion" -> "completion"
      [] kind \in {"ignored", "bad_json", "non_utf8"} -> "continue"
      [] kind \in {"bad_header", "no_length"} -> "panic"
      [] OTHER -> "err"

\* The reader worker's loop body on one message: assert_eq! and the headers
\* index panic, the ? operators return an error, a payload that is no success
\* response (ignored) or that serde_json::from_str rejects (bad_json) fails
\* the if-let and is skipped.
ReaderVerdict(kind) ==
    CASE kind = "init_ok" -> "init"
      [] kind = "completion" -> "completion"
      [] kind \in {"ignored", "bad_json"} -> "continue"
      [] kind \in {"bad_header", "no_length"} -> "panic"
      [] OTHER -> "err"

\* The reader worker reads one message from the server's output.
ReaderRead(kind) ==
    /\ lsp # "none"
    /\ rpc = "read"
    /\ srvCount < MaxSrvMsgs
    /\ kind = "short_read" => proc = "dead"
    /\ srvCount' = srvCount + 1
    /\ lastRead' = kind
    /\ lop' = "reader"
    /\ LET v == ReaderVerdict(kind)
           \* init_tx.send fails once the writer worker has dropped init_rx;
           \* tx.send fails once the client has dropped completion_recv.
           send_fails == \/ (v = "init" /\ wpc = "done")
                         \/ (v = "completion" /\ lsp = "dropped")
       IN  /\ initSeen' = (initSeen \/ v = "init")
           /\ initChan' = IF v = "init" /\ ~send_fails THEN initChan + 1
                          ELSE initChan
           /\ compChan' = IF v = "completion" /\ ~send_fails
                          THEN Append(compChan, srvCount + 1) ELSE compChan
           /\ delivered' = IF v = "completion" /\ ~send_fails
                           THEN Append(delivered, srvCount + 1) ELSE delivered
           /\ rpc' = IF v \in {"err", "panic"} \/ send_fails THEN "done" ELSE "read"
           /\ rend' = IF v \in {"err", "panic"} THEN v
                      ELSE IF send_fails THEN "send_err" ELSE rend
    /\ UNCHANGED <<lsp, proc, wpc, wreq, creq, wire, pollResult, reqCount,
                   pollMark, pollsAfterEnd>>

\* read_line returns 0: the server's output is at its end.
ReaderEof ==
    /\ lsp # "none"
    /\ rpc = "read"
    /\ proc = "dead"
    /\ rpc' = "done"
    /\ rend' = "eof"
    /\ lastRead' = "eof"
    /\ lop' = "reader"
    /\ UNCHANGED <<lsp, proc, wpc, wreq, initChan, creq, compChan, wire,
                   pollResult, reqCount, srvCount, initSeen, delivered,
                   pollMark, pollsAfterEnd>>

\* A plausible slip: the writer worker does not wait for the acknowledgment.
InitRecv_NoWait(acks, reader_done) == "ok"

\* init_rx.recv(): a queued acknowledgment, an error once the reader worker
\* (the only sender) is gone, and blocked otherwise.
InitRecv(acks, reader_done) ==
    IF acks > 0 THEN "ok" ELSE IF reader_done THEN "err" ELSE "block"

\* The writer worker waits for the initialize acknowledgment.
WriterWaitInit ==
    /\ lsp # "none"
    /\ wpc = "wait_init"
    /\ LET r == InitRecv(initChan, rpc = "done")
       IN  /\ r # "block"
           /\ wpc' = IF r = "ok" THEN "serve" ELSE "done"
           /\ initChan' = IF r = "ok" /\ initChan > 0 THEN initChan - 1 ELSE initChan
           /\ creq' = IF r = "ok" THEN creq ELSE <<>>
    /\ lop' = "writer"
    /\ UNCHANGED <<lsp, proc, wreq, rpc, rend, compChan, wire, pollResult,
                   reqCount, srvCount, initSeen, delivered, pollMark, lastRead,
                   pollsAfterEnd>>

\* A plausible slip: the writer worker serves the newest request first.
WriterRecv_Newest ==
    /\ lsp # "none"
    /\ wpc = "serve"
    /\ creq # <<>> \/ lsp = "dropped"
    /\ IF creq # <<>> /\ proc = "running"
       THEN /\ wreq' = Last(creq)
            /\ creq' = SubSeq(creq, 1, Len(creq) - 1)
            /\ wire' = Append(wire, [kind |-> "didOpen", req |-> Last(creq)])
            /\ wpc' = "mid"
       ELSE /\ wreq' = 0
            /\ creq' = <<>>
            /\ wire' = wire
            /\ wpc' = "done"
    /\ lop' = "writer"
    /\ UNCHANGED <<lsp, proc, rpc, rend, initChan, compChan, pollResult,
                   reqCount, srvCount, initSeen, delivered, pollMark, lastRead,
                   pollsAfterEnd>>

\* The writer worker takes the next request and writes the document-opened
\* notification; c_rx.recv() fails once the client is gone and the queue is
\* empty, send_notify fails once the server's input is closed.
WriterRecv ==
    /\ lsp # "none"
    /\ wpc = "serve"
    /\ creq # <<>> \/ lsp = "dropped"
    /\ IF creq # <<>> /\ proc = "running"
       THEN /\ wreq' = Head(creq)
            /\ creq' = Tail(creq)
            /\ wire' = Append(wire, [kind |-> "didOpen", req |-> Head(creq)])
            /\ wpc' = "mid"
       ELSE /\ wreq' = 0
            /\ creq' = <<>>
            /\ wire' = wire
            /\ wpc' = "done"
    /\ lop' = "writer"
    /\ UNCHANGED <<lsp, proc, rpc, rend, initChan, compChan, pollResult,
                   reqCount, srvCount, initSeen, delivered, pollMark, lastRead,
                   pollsAfterEnd>>

\* The writer worker writes the completion request with the completion id.
WriterCompletion ==
    /\ lsp # "none"
    /\ wpc = "mid"
    /\ IF proc = "running"
       THEN /\ wire' = Append(wire, [kind |-> "completion", req |-> wreq])
            /\ wpc' = "serve"
            /\ creq' = creq
       ELSE /\ wire' = wire
            /\ wpc' = "done"
            /\ creq' = <<>>
    /\ wreq' = 0
    /\ lop' = "writer"
    /\ UNCHANGED <<lsp, proc, rpc, rend, initChan, compChan, pollResult,
                   reqCount, srvCount, initSeen, delivered, pollMark, lastRead,
                   pollsAfterEnd>>

\* The server process ends on its own.
ServerExit ==
    /\ lsp # "none"
    /\ proc = "running"
    /\ proc' = "dead"
    /\ lop' = "server"
    /\ UNCHANGED <<lsp, wpc, wreq, rpc, rend, initChan, creq, compChan, wire,
                   pollResult, reqCount, srvCount, initSeen, delivered,
                   pollMark, lastRead, pollsAfterEnd>>

\* A plausible slip: the request is queued although nobody will take it.
CompletionReqSend_Queue(q, req, writer_done) == Append(q, req)

\* self.completion_req.send((src, cursor)) with its result discarded: the
\* channel is unbounded, and the send fails, queueing nothing, once the
\* writer worker has dropped c_rx.
CompletionReqSend(q, req, writer_done) ==
    IF writer_done THEN q ELSE Append(q, req)

\* LSPClient::request_completion.
RequestCompletion ==
    /\ lsp = "live"
    /\ reqCount < MaxReq
    /\ reqCount' = reqCount + 1
    /\ creq' = CompletionReqSend(creq, reqCount + 1, wpc = "done")
    /\ lop' = "request"
    /\ UNCHANGED <<lsp, proc, wpc, wreq, rpc, rend, initChan, compChan, wire,
                   pollResult, srvCount, initSeen, delivered, pollMark,
                   lastRead, pollsAfterEnd>>

\* A plausible slip: the first buffered batch is returned and the rest is
\* left in the channel.
LspPollLoop_First(ch, res) ==
    IF ch = <<>> THEN <<res, ch>> ELSE <<Some(Head(ch)), Tail(ch)>>

\* LSPClient::poll, the while-let loop over try_recv: the result and what is
\* left in the channel.
RECURSIVE LspPollLoop(_, _)
LspPollLoop(ch, res) ==
    IF ch = <<>> THEN <<res, ch>> ELSE LspPollLoop(Tail(ch), Some(Head(ch)))

\* LSPClient::poll.
LspPoll ==
    /\ lsp = "live"
    /\ LET r == LspPollLoop(compChan, None)
       IN  /\ pollResult' = r[1]
           /\ compChan' = r[2]
    /\ pollMark' = <<pollMark[2], Len(delivered)>>
    /\ pollsAfterEnd' = IF rpc = "done" THEN Min(pollsAfterEnd + 1, 2) ELSE 0
    /\ lop' = "poll"
    /\ UNCHANGED <<lsp, proc, wpc, wreq, rpc, rend, initChan, creq, wire,
                   reqCount, srvCount, initSeen, delivered, lastRead>>

\* The client's state with no client (live = FALSE) and right after
\* LSPClient::start returned Ok (live = TRUE): the initialize request is
\* written, both workers are spawned.
LspStarted(live) ==
    /\ lsp' = IF live THEN "live" ELSE "none"
    /\ proc' = IF live THEN "running" ELSE "dead"
    /\ wpc' = IF live THEN "wait_init" ELSE "done"
    /\ rpc' = IF live THEN "read" ELSE "done"
    /\ wire' = IF live THEN <<[kind |-> "initialize", req |-> 0]>> ELSE <<>>
    /\ wreq' = 0
    /\ rend' = "no"
    /\ initChan' = 0
    /\ creq' = <<>>
    /\ compChan' = <<>>
    /\ pollResult' = None
    /\ reqCount' = 0
    /\ srvCount' = 0
    /\ initSeen' = FALSE
    /\ delivered' = <<>>
    /\ pollMark' = <<0, 0>>
    /\ lastRead' = "no"
    /\ pollsAfterEnd' = 0

\* A plausible slip: the result of LSPClient::start is taken for a client
\* whether or not the spawn succeeded.
LspAndThenStart_Unchecked(configured, spawn_ok) == configured

\* config.get::<keys::LSP>(path).and_then(|c| LSPClient::start(..).ok()):
\* Some client exactly when a command is configured and start returned Ok.
LspAndThenStart(configured, spawn_ok) == configured /\ spawn_ok

\* Buffer::restart_lsp: a client when an LSP command is configured for the
\* path and LSPClient::start succeeds, none otherwise; the old client is
\* dropped. lop records which of the three ways the call went.
RestartLsp(ext, spawn_ok) ==
    /\ lsp # "dropped"
    /\ LspStarted(LspAndThenStart(ConfigWithDefaultGet("LSP", ext), spawn_ok))
    /\ lop' = IF ~ConfigWithDefaultGet("LSP", ext) THEN "restart_no_command"
              ELSE IF ~spawn_ok THEN "restart_spawn_failed"
              ELSE "restart"

\* A plausible slip: the client is dropped without killing the server.
ProcessKill_Skip(p) == p

\* Drop for LSPClient: let _ = self.process.kill().
ProcessKill(p) == "dead"

\* The Buffer is dropped with a client: Drop for LSPClient kills the server,
\* the two channel ends the client holds are dropped.
DropBuffer ==
    /\ lsp = "live"
    /\ lsp' = "dropped"
    /\ proc' = ProcessKill(proc)
    /\ compChan' = <<>>
    /\ lop' = "drop"
    /\ UNCHANGED <<wpc, wreq, rpc, rend, initChan, creq, wire, pollResult,
                   reqCount, srvCount, initSeen, delivered, pollMark, lastRead,
                   pollsAfterEnd>>

InitLsp ==
    /\ lsp = "none"
    /\ proc = "dead"
    /\ wpc = "done"
    /\ rpc = "done"
    /\ wire = <<>>
    /\ wreq = 0
    /\ rend = "no"
    /\ initChan = 0
    /\ creq = <<>>
    /\ compChan = <<>>
    /\ pollResult = None
    /\ reqCount = 0
    /\ srvCount = 0
    /\ initSeen = FALSE
    /\ delivered = <<>>
    /\ pollMark = <<0, 0>>
    /\ lastRead = "no"
    /\ pollsAfterEnd = 0
    /\ lop = "new"

\* ------------------------------------------------------------ BufferMode
\* An input event, with what the active mode makes of it: the Transition it
\* returns and the row it edits (NoEdit: none).
NoEdit == 0 - 1

Ev(key, trans, commit, edit) ==
    [key |-> key, trans |-> trans, commit |-> commit, edit |-> edit,
     message |-> FALSE]

\* An event the mode answers with Return(Some(s), commit).
EvMessage(key, commit) ==
    [Ev(key, "Return", commit, NoEdit) EXCEPT !.message = TRUE]

Events ==
    {Ev("i", "RecordMacro", FALSE, NoEdit),
     Ev("x", "Nothing", FALSE, 0),
     Ev("y", "Nothing", FALSE, 1),
     Ev("v", "Trans", FALSE, NoEdit),
     Ev("esc", "Return", TRUE, NoEdit),
     Ev("c", "Return", FALSE, NoEdit),
     EvMessage("m", FALSE),
     EvMessage("M", TRUE),
     Ev(".", "DoMacro", FALSE, NoEdit),
     Ev("q", "Exit", FALSE, NoEdit)}

\* Normal::default() of BufferMode::new: no init call.
NormalMode == [kind |-> "Normal", inits |-> 0, message |-> FALSE]

\* A plausible slip: the mode is installed without its init hook.
ModeInit_Skip(m) == m

\* t.init(&mut self.buf).
ModeInit(m) == [m EXCEPT !.inits = m.inits + 1]

\* The mode a transition builds, init called, as it is installed.
InitMode_(kind) == ModeInit([kind |-> kind, inits |-> 0, message |-> FALSE])

\* The BufferMode as a value.
BmState ==
    [mode |-> mode, is_recording |-> is_recording, dot_macro |-> dot_macro,
     recording_macro |-> recording_macro, core |-> CoreState,
     diverged |-> diverged, refed |-> FALSE, badInit |-> badInit]

\* self.mode.event(&mut self.buf, event): the mode's edit of the buffer.
ModeEvent(st, ev) ==
    IF ev.edit = NoEdit THEN st ELSE [st EXCEPT !.core = CoreEdit(st.core, ev.edit)]

\* BufferMode::event, the push while recording.
PushIfRecording(st, ev) ==
    IF st.is_recording
    THEN [st EXCEPT !.recording_macro = Append(st.recording_macro, ev)]
    ELSE st

\* A plausible slip: recording starts after the triggering event.
OnRecordMacro_NoTrigger(st, ev) ==
    [st EXCEPT !.is_recording = TRUE,
               !.recording_macro = <<>>,
               !.mode = InitMode_("Other")]

\* BufferMode::event, Transition::RecordMacro.
OnRecordMacro(st, ev) ==
    [st EXCEPT !.is_recording = TRUE,
               !.recording_macro = <<ev>>,
               !.mode = InitMode_("Other")]

\* Normal::with_message(s) or Normal::default(), then t.init(&mut self.buf).
ReturnMode(ev) ==
    ModeInit([kind |-> "Normal", inits |-> 0, message |-> ev.message])

\* A plausible slip: the commit does not ask for the recording flag.
OnReturn_NoFlagTest(st, ev) ==
    LET commit == st.recording_macro # <<>> /\ ev.commit
    IN  [st EXCEPT !.dot_macro = IF commit THEN st.recording_macro ELSE st.dot_macro,
                   !.recording_macro = IF commit THEN <<>> ELSE st.recording_macro,
                   !.is_recording = FALSE,
                   !.mode = ReturnMode(ev)]

\* A plausible slip: the flag is reset inside the commit branch only.
OnReturn_FlagInBranch(st, ev) ==
    LET commit == st.is_recording /\ st.recording_macro # <<>> /\ ev.commit
    IN  [st EXCEPT !.dot_macro = IF commit THEN st.recording_macro ELSE st.dot_macro,
                   !.recording_macro = IF commit THEN <<>> ELSE st.recording_macro,
                   !.is_recording = IF commit THEN FALSE ELSE st.is_recording,
                   !.mode = ReturnMode(ev)]

\* BufferMode::event, Transition::Return(s, is_commit_macro).
OnReturn(st, ev) ==
    LET commit == st.is_recording /\ st.recording_macro # <<>> /\ ev.commit
    IN  [st EXCEPT !.dot_macro = IF commit THEN st.recording_macro ELSE st.dot_macro,
                   !.recording_macro = IF commit THEN <<>> ELSE st.recording_macro,
                   !.is_recording = FALSE,
                   !.mode = ReturnMode(ev)]

\* BufferMode::event, Transition::Trans.
OnTrans(st, ev) == [st EXCEPT !.mode = InitMode_("Other")]

RECURSIVE Dispatch(_, _, _)
RECURSIVE Replay(_, _, _)

\* A plausible slip: the replay walks the recording buffer.
OnDoMacro_WrongBuffer(st, depth) ==
    IF depth >= MaxDepth THEN [st EXCEPT !.diverged = TRUE]
    ELSE Replay(st, st.recording_macro, depth + 1)

\* BufferMode::event, Transition::DoMacro: self.event on every event of a
\* clone of dot_macro. A nesting deeper than MaxDepth only occurs when the
\* replay re-enters itself without end.
OnDoMacro(st, depth) ==
    IF depth >= MaxDepth THEN [st EXCEPT !.diverged = TRUE]
    ELSE Replay(st, st.dot_macro, depth + 1)

\* BufferMode::event: the new state and the value returned.
Dispatch(st, ev, depth) ==
    LET s0 == ModeEvent(PushIfRecording(st, ev), ev)
        \* history: this call is one of the replay loop and appends its event
        s01 == IF depth > 0 /\ (st.is_recording \/ ev.trans = "RecordMacro")
               THEN [s0 EXCEPT !.refed = TRUE] ELSE s0
        \* history: the mode receiving the event was installed by a
        \* transition and its init hook has not run exactly once
        s1 == IF st.mode.inits # 1 /\ (depth > 0 \/ st.mode # NormalMode)
              THEN [s01 EXCEPT !.badInit = TRUE] ELSE s01
    IN  CASE ev.trans = "Exit" -> <<s1, TRUE>>
          [] ev.trans = "Trans" -> <<OnTrans(s1, ev), FALSE>>
          [] ev.trans = "DoMacro" -> <<OnDoMacro(s1, depth), FALSE>>
          [] ev.trans = "Return" -> <<OnReturn(s1, ev), FALSE>>
          [] ev.trans = "RecordMacro" -> <<OnRecordMacro(s1, ev), FALSE>>
          [] OTHER -> <<s1, FALSE>>

\* The for loop of Transition::DoMacro; the values self.event returns are
\* dropped.
Replay(st, evs, depth) ==
    IF evs = <<>> \/ st.diverged THEN st
    ELSE Replay(Dispatch(st, Head(evs), depth)[1], Tail(evs), depth)

\* BufferMode::event called by the frame loop.
Event(ev) ==
    /\ ~exited
    /\ ~diverged
    /\ LET r == Dispatch(BmState, ev, 0)
           st == r[1]
       IN  /\ st.core.buffer_changed <= MaxEdits
           /\ Len(st.recording_macro) <= MaxMacro
           /\ mode' = st.mode
           /\ is_recording' = st.is_recording
           /\ dot_macro' = st.dot_macro
           /\ recording_macro' = st.recording_macro
           /\ diverged' = st.diverged
           /\ SetCore(st.core)
           /\ exited' = r[2]
           /\ refed' = st.refed
           /\ badInit' = st.badInit
    /\ lastEv' = Some(ev)
    /\ pre' = IF ev.trans = "DoMacro" THEN Some([st |-> BmState, ev |-> ev])
               ELSE None
    /\ trace' = IF ev.trans = "RecordMacro" /\ ~is_recording THEN <<ev>>
                ELSE IF trace # <<>> /\ ~traceDone
                        /\ (ev.trans \in {"Nothing", "Trans"}
                            \/ (ev.trans = "Return" /\ ev.commit))
                     THEN Append(trace, ev)
                     ELSE <<>>
    /\ traceDone' = (trace # <<>> /\ ~traceDone /\ ev.trans = "Return" /\ ev.commit)

InitMode ==
    /\ mode = NormalMode
    /\ is_recording = FALSE
    /\ dot_macro = <<>>
    /\ recording_macro = <<>>
    /\ exited = FALSE
    /\ diverged = FALSE
    /\ pre = None
    /\ lastEv = None
    /\ refed = FALSE
    /\ badInit = FALSE
    /\ trace = <<>>
    /\ traceDone = FALSE

\* ------------------------------------------------------------- render pass
ScrollStep == 3

\* DrawCache as a value; computed collects the rows recomputed since it was
\* last emptied.
CacheState == [entries |-> cache_lines, watermark |-> watermark, computed |-> {}]

\* DrawCache::new: nothing cached, watermark zero.
CacheNew == [entries |-> [r \in Rows |-> None], watermark |-> 0, computed |-> {}]

\* DrawCache::get_line.
GetLine(c, row) == c.entries[row]

\* The tokenizer run over rows from..row, each row from the state left by the
\* row before it: an entry is the sequence of line texts its state has read.
RECURSIVE CacheFill(_, _, _, _)
CacheFill(c, txt, from, row) ==
    IF from > row THEN c
    ELSE LET prev == IF from = 0 THEN <<>> ELSE c.entries[from - 1][1]
             c1 == [entries |-> [c.entries EXCEPT ![from] = Some(Append(prev, txt[from]))],
                    watermark |-> from + 1,
                    computed |-> c.computed \union {from}]
         IN  CacheFill(c1, txt, from + 1, row)

\* DrawCache::cache_line: a row below the watermark is valid; otherwise the
\* rows from the watermark to the row are recomputed.
CacheLine(c, txt, row) ==
    IF row < c.watermark THEN c ELSE CacheFill(c, txt, c.watermark, row)

\* DrawCache::dirty_from: lowers the watermark and drops the entries at or
\* after the row.
DirtyFrom(c, row) ==
    [c EXCEPT !.watermark = Min(c.watermark, row),
              !.entries = [r \in Rows |-> IF r >= row THEN None ELSE c.entries[r]]]

\* DrawCache::extend_cache_duration, with the budget as the number of lines
\* whose tokenizing fits into the duration.
ExtendCache(c, txt, budget) ==
    IF c.watermark >= NumLines \/ budget = 0 THEN c
    ELSE CacheLine(c, txt, Min(c.watermark + budget - 1, NumLines - 1))

\* Buffer::show_cursor_, every line taking one screen row.
ShowCursor_(offset, cur, rows) ==
    IF offset >= cur THEN cur ELSE Max(Max(0, cur + 1 - rows), offset)

\* Buffer::show_cursor_middle_.
ShowCursorMiddle_(cur, rows) ==
    IF rows \div 2 > cur THEN 0 ELSE cur - rows \div 2

\* A plausible slip: the cache is dirtied from the cursor's row, the row of
\* the last edit only.
DirtySync_Cursor(c, update, core) ==
    IF update # core.buffer_changed
    THEN <<DirtyFrom(c, core.cursor), core.buffer_changed>>
    ELSE <<c, update>>

\* A plausible slip: the sync is keyed on the watermark being behind.
DirtySync_Never(c, update, core) == <<c, core.buffer_changed>>

\* Buffer::draw_with_selected, the dirty sync: the cache and buffer_update.
DirtySync(c, update, core) ==
    IF update # core.buffer_changed
    THEN <<DirtyFrom(c, core.dirty_from), core.buffer_changed>>
    ELSE <<c, update>>

\* A plausible slip: the render pass relies on the background fill.
DrawRowCache_NoCacheLine(c, txt, i) == c

\* Buffer::draw_with_selected, self.cache.cache_line(self.core.buffer(), i).
DrawRowCache(c, txt, i) == CacheLine(c, txt, i)

\* A plausible slip: core.dirty_from is left alone by the render pass.
DrawRowDirty_Keep(df, i) == df

\* Buffer::draw_with_selected, self.core.dirty_from = i.
DrawRowDirty(df, i) == i

\* Buffer::draw_with_selected, the loop over the rows row_offset..=last: last
\* is the last row of the text, or the first row the view has no room for
\* (view.put returns None and the loop breaks).
RECURSIVE DrawLoop(_, _, _, _)
DrawLoop(d, txt, i, last) ==
    IF i > last \/ d.panic THEN d
    ELSE LET c1 == DrawRowCache(d.cache, txt, i)
             line == GetLine(c1, i)
         IN  DrawLoop([cache |-> c1,
                       panic |-> (line = None),
                       dirty_from |-> IF line = None THEN d.dirty_from
                                      ELSE DrawRowDirty(d.dirty_from, i),
                       drawn |-> d.drawn \union {i}],
                      txt, i + 1, last)

\* The history of a render pass, kept until the next operation.
NoSync == [pre |-> CacheNew, arg |-> 0, changed |-> FALSE, post |-> CacheNew]

ForgetPass ==
    /\ drawn' = {}
    /\ recomputed' = {}
    /\ sync' = NoSync

\* Buffer::draw_with_selected on a view of the given height.
DrawWithSelected(height) ==
    LET offset == CASE show_cursor_on_draw = "ShowMiddle" ->
                          ShowCursorMiddle_(cursor, height)
                    [] show_cursor_on_draw = "Show" ->
                          ShowCursor_(row_offset, cursor, height)
                    [] OTHER -> row_offset
        synced == DirtySync(CacheState, buffer_update, CoreState)
        last == Min(NumLines - 1, offset + height)
        d == DrawLoop([cache |-> synced[1], panic |-> FALSE,
                       dirty_from |-> dirty_from, drawn |-> {}],
                      text, offset, last)
        full == offset = 0 /\ last = NumLines - 1 /\ ~d.panic
    IN  /\ row_offset' = offset
        /\ show_cursor_on_draw' = "None"
        /\ buffer_update' = synced[2]
        /\ cache_lines' = d.cache.entries
        /\ watermark' = d.cache.watermark
        /\ dirty_from' = d.dirty_from
        /\ drawPanic' = (drawPanic \/ d.panic)
        /\ drawn' = d.drawn
        /\ recomputed' = d.cache.computed
        /\ sync' = [pre |-> CacheState, arg |-> dirty_from,
                    changed |-> (buffer_update # buffer_changed),
                    post |-> synced[1]]
        /\ scen' = IF full /\ scen \in {2, 3} THEN 4
                   ELSE IF full /\ d.cache.watermark = NumLines THEN 1 ELSE 0
        /\ scenV0' = IF full /\ scen \in {2, 3} THEN scenV0
                     ELSE IF full THEN buffer_changed ELSE 0
        /\ UNCHANGED <<buffer_changed, text, cursor>>

\* Buffer::draw: the compile results are polled, then the text is drawn.
Draw(height) ==
    /\ PollCompileMessage
    /\ DrawWithSelected(height)

\* A plausible slip: the background fill lowers the watermark to
\* core.dirty_from on its own, as the render pass does on a version change.
ExtendCacheDuration_Sync(budget) ==
    /\ LET c == ExtendCache(DirtyFrom(CacheState, dirty_from), text, budget)
       IN  /\ cache_lines' = c.entries
           /\ watermark' = c.watermark
           /\ recomputed' = c.computed
    /\ drawn' = {}
    /\ sync' = NoSync
    /\ scen' = IF scen = 4 THEN 0 ELSE scen
    /\ scenV0' = IF scen = 4 THEN 0 ELSE scenV0
    /\ UNCHANGED <<buffer_update, row_offset, show_cursor_on_draw, drawPanic>>

\* Buffer::extend_cache_duration.
ExtendCacheDuration(budget) ==
    /\ LET c == ExtendCache(CacheState, text, budget)
       IN  /\ cache_lines' = c.entries
           /\ watermark' = c.watermark
           /\ recomputed' = c.computed
    /\ drawn' = {}
    /\ sync' = NoSync
    /\ scen' = IF scen = 4 THEN 0 ELSE scen
    /\ scenV0' = IF scen = 4 THEN 0 ELSE scenV0
    /\ UNCHANGED <<buffer_update, row_offset, show_cursor_on_draw, drawPanic>>

\* Buffer::scroll_up.
ScrollUp ==
    /\ row_offset' = IF row_offset < ScrollStep THEN 0 ELSE row_offset - ScrollStep
    /\ ForgetPass
    /\ scen' = 0
    /\ scenV0' = 0
    /\ UNCHANGED <<cache_lines, watermark, buffer_update, show_cursor_on_draw,
                   drawPanic>>

\* Buffer::scroll_down.
ScrollDown ==
    /\ row_offset' = Min(row_offset + ScrollStep, NumLines - 1)
    /\ ForgetPass
    /\ scen' = 0
    /\ scenV0' = 0
    /\ UNCHANGED <<cache_lines, watermark, buffer_update, show_cursor_on_draw,
                   drawPanic>>

\* Buffer::show_cursor and Buffer::show_cursor_middle.
ShowCursor(middle) ==
    /\ show_cursor_on_draw' = IF middle THEN "ShowMiddle" ELSE "Show"
    /\ ForgetPass
    /\ scen' = 0
    /\ scenV0' = 0
    /\ UNCHANGED <<cache_lines, watermark, buffer_update, row_offset, drawPanic>>

\* The events of the frame loop that reach the text: a mode is entered, a
\* character is typed on a row, the mode returns to Normal.
EditEvents ==
    {Ev("v", "Trans", FALSE, NoEdit), Ev("c", "Return", FALSE, NoEdit)}
        \union {Ev("t", "Nothing", FALSE, r) : r \in Rows}

\* BufferMode::event in the frame loop, followed in the scenario history.
EditEvent(ev) ==
    /\ Event(ev)
    /\ buffer_changed' <= MaxRenderEdits
    /\ scen' = IF scen = 1 /\ mode.kind = "Other" /\ ev.edit = 1 THEN 2
               ELSE IF scen = 1 /\ ev.trans = "Trans" THEN 1
               ELSE IF scen = 2 /\ ev.trans = "Return" THEN 3
               ELSE 0
    /\ scenV0' = IF scen' = 0 THEN 0 ELSE scenV0
    /\ ForgetPass
    /\ UNCHANGED <<cache_lines, watermark, buffer_update, row_offset,
                   show_cursor_on_draw, drawPanic>>

InitDraw ==
    /\ cache_lines = CacheNew.entries
    /\ watermark = CacheNew.watermark
    /\ buffer_update = 0
    /\ row_offset = 0
    /\ show_cursor_on_draw = "None"
    /\ drawPanic = FALSE
    /\ drawn = {}
    /\ recomputed = {}
    /\ sync = NoSync
    /\ scen = 0
    /\ scenV0 = 0

\* ------------------------------------------------------------------ Buffer
\* Buffer::set_path: the storage, then set_language (a new compiler, then
\* restart_lsp).
SetPath(ext, spawn_ok) ==
    /\ path' = Some(ext)
    /\ SetCompiler(Some(ext))
    /\ RestartLsp(Some(ext), spawn_ok)

\* Buffer::new and BufferMode::new.
Init ==
    /\ InitCore
    /\ InitCompile
    /\ InitLsp
    /\ InitMode
    /\ InitDraw
    /\ frame = "top"
    /\ fill = [n |-> 0, budget |-> 0]

\* The compile pipeline with its worker.
NextCompile ==
    \/ (\E o \in BOOLEAN : Compile(o)) /\ waiting = "no" /\ UNCHANGED <<coreVars, lspVars, modeVars, drawVars, frameVars>>
    \/ (\E e \in Exts, ok \in BOOLEAN : SetPath(e, ok)) /\ waiting = "no"
         /\ UNCHANGED <<coreVars, modeVars, drawVars, frameVars>>
    \/ (\E i \in 1..MaxJobs : WorkerFinish(i)) /\ UNCHANGED <<coreVars, lspVars, modeVars, drawVars, frameVars>>
    \/ PollCompileMessage /\ waiting = "no"
         /\ UNCHANGED <<coreVars, lspVars, modeVars, drawVars, frameVars>>
    \/ WaitCompileMessage /\ UNCHANGED <<coreVars, lspVars, modeVars, drawVars, frameVars>>
    \/ WaitCheck /\ UNCHANGED <<coreVars, lspVars, modeVars, drawVars, frameVars>>
    \/ WaitRecv /\ UNCHANGED <<coreVars, lspVars, modeVars, drawVars, frameVars>>
    \/ EditVersion /\ cop' = "edit" /\ waiting = "no"
         /\ UNCHANGED <<path, compiler, last_compiler_submit,
                        last_compiler_compiled, last_compiler_result, jobs, chan,
                        nJobs, recvLog, lastCall, waiting, lspVars, modeVars,
                        drawVars, frameVars>>

SpecCompile == Init /\ [][NextCompile]_vars

\* The protocol client with its two workers and the server.
NextLsp ==
    \/ (\E e \in Exts, ok \in BOOLEAN : SetPath(e, ok)) /\ UNCHANGED <<coreVars, modeVars, drawVars, frameVars>>
    \/ (\E ok \in BOOLEAN : RestartLsp(path, ok))
         /\ UNCHANGED <<coreVars, compileVars, modeVars, drawVars, frameVars>>
    \/ RequestCompletion /\ UNCHANGED <<coreVars, compileVars, modeVars, drawVars, frameVars>>
    \/ LspPoll /\ UNCHANGED <<coreVars, compileVars, modeVars, drawVars, frameVars>>
    \/ WriterWaitInit /\ UNCHANGED <<coreVars, compileVars, modeVars, drawVars, frameVars>>
    \/ WriterRecv /\ UNCHANGED <<coreVars, compileVars, modeVars, drawVars, frameVars>>
    \/ WriterCompletion /\ UNCHANGED <<coreVars, compileVars, modeVars, drawVars, frameVars>>
    \/ (\E k \in MsgKinds : ReaderRead(k)) /\ UNCHANGED <<coreVars, compileVars, modeVars, drawVars, frameVars>>
    \/ ReaderEof /\ UNCHANGED <<coreVars, compileVars, modeVars, drawVars, frameVars>>
    \/ ServerExit /\ UNCHANGED <<coreVars, compileVars, modeVars, drawVars, frameVars>>
    \/ DropBuffer /\ UNCHANGED <<coreVars, compileVars, modeVars, drawVars, frameVars>>

SpecLsp == Init /\ [][NextLsp]_vars

\* The two worker threads are scheduled: a worker that can take its step,
\* with its receive or read returning, takes it.
LspWorkerStep ==
    (WriterWaitInit \/ WriterRecv \/ WriterCompletion \/ ReaderEof)
        /\ UNCHANGED <<coreVars, compileVars, modeVars, drawVars, frameVars>>

SpecLspFair == SpecLsp /\ WF_vars(LspWorkerStep)

\* The mode orchestrator fed with input events.
NextMacro ==
    (\E ev \in Events : Event(ev)) /\ UNCHANGED <<compileVars, lspVars, drawVars, frameVars>>

SpecMacro == Init /\ [][NextMacro]_vars

\* The render side of the frame loop: events that edit, the background fill,
\* scrolling and the render pass.
NextDraw ==
    \/ (\E ev \in EditEvents : EditEvent(ev)) /\ UNCHANGED <<compileVars, lspVars, frameVars>>
    \/ (\E h \in 1..NumLines : Draw(h)) /\ UNCHANGED <<lspVars, modeVars, frameVars>>
    \/ (\E b \in 0..NumLines : ExtendCacheDuration(b))
         /\ UNCHANGED <<coreVars, compileVars, lspVars, modeVars, frameVars>>
    \/ ScrollUp /\ UNCHANGED <<coreVars, compileVars, lspVars, modeVars, frameVars>>
    \/ ScrollDown /\ UNCHANGED <<coreVars, compileVars, lspVars, modeVars, frameVars>>
    \/ (\E m \in BOOLEAN : ShowCursor(m))
         /\ UNCHANGED <<coreVars, compileVars, lspVars, modeVars, frameVars>>

SpecDraw == Init /\ [][NextDraw]_vars

\* A plausible slip: the value BufferMode::event returns is dropped.
FrameAfterEvent_Ignore(returned) == "draw"

\* main: if state.event(evt) { return; }, else on to the draw.
FrameAfterEvent(returned) == IF returned THEN "stopped" ELSE "draw"

\* main: let frame = Duration::from_secs(1) / 60, in nanoseconds.
FramePeriod == 1000000000 \div 60

\* main: the duration passed to extend_cache_duration, the frame itself.
FrameBudget == FramePeriod

\* main: state.buf.extend_cache_duration(frame) at the top of a frame; the
\* fill tokenizes as many lines as fit into the duration.
FrameExtend(budget) ==
    /\ frame = "top"
    /\ ExtendCacheDuration(budget)
    /\ frame' = "recv"
    /\ fill' = [n |-> fill.n + 1, budget |-> FrameBudget]

\* The events of a session: one for each transition a mode can answer.
FrameEvents ==
    {Ev("i", "RecordMacro", FALSE, NoEdit),
     Ev("x", "Nothing", FALSE, 0),
     Ev("y", "Nothing", FALSE, 1),
     Ev("v", "Trans", FALSE, NoEdit),
     Ev("esc", "Return", TRUE, NoEdit),
     Ev(".", "DoMacro", FALSE, NoEdit),
     Ev("q", "Exit", FALSE, NoEdit)}

\* main: an event arrived within the frame and is fed to the BufferMode.
FrameEvent(ev) ==
    /\ frame = "recv"
    /\ EditEvent(ev)
    /\ Len(recording_macro') <= MaxFrameMacro
    /\ frame' = FrameAfterEvent(exited')
    /\ UNCHANGED fill

\* main: no event arrived within the frame.
FrameTimeout ==
    /\ frame = "recv"
    /\ frame' = "draw"
    /\ UNCHANGED fill

\* main: state.draw(&mut draw.back), the active mode drawing the buffer.
FrameDraw(height) ==
    /\ frame = "draw"
    /\ Draw(height)
    /\ frame' = "top"
    /\ fill' = [fill EXCEPT !.n = 0]

\* The frame loop of main.
NextFrame ==
    \/ (\E b \in 0..NumLines : FrameExtend(b))
         /\ UNCHANGED <<coreVars, compileVars, lspVars, modeVars>>
    \/ (\E ev \in FrameEvents : FrameEvent(ev)) /\ UNCHANGED <<compileVars, lspVars>>
    \/ FrameTimeout
         /\ UNCHANGED <<coreVars, compileVars, lspVars, modeVars, drawVars>>
    \/ (\E h \in 1..NumLines : FrameDraw(h)) /\ UNCHANGED <<lspVars, modeVars>>

SpecFrame == Init /\ [][NextFrame]_vars

\* ------------------------------------------------------------------ claims

\* C1: with a path and a compiler configured, a Buffer::compile call hands a
\* job to the worker if and only if its (version, is_optimize) pair differs
\* from the pair of the call before it.
C1_DedupIff ==
    (lastCall # None /\ lastCall[1].configured /\ lastCall[1].prev # None)
        => (lastCall[1].handed <=> lastCall[1].pair # lastCall[1].prev[1])

\* C1 witness: the same version with the other optimization flag was handed off.
C1_Witness ==
    /\ lastCall # None
    /\ lastCall[1].configured
    /\ lastCall[1].prev # None
    /\ lastCall[1].prev[1].id = lastCall[1].pair.id
    /\ lastCall[1].prev[1].is_optimize # lastCall[1].pair.is_optimize
    /\ lastCall[1].handed

\* C2: after poll_compile_message, last_compiler_result and
\* last_compiler_compiled are those of the result delivered last in channel
\* order, whatever its id, and nothing is left in the channel.
C2_LastReceivedWins ==
    (cop = "poll" /\ compiler /\ recvLog # <<>>)
        => /\ last_compiler_result = Some(Last(recvLog).res)
           /\ last_compiler_compiled = Last(recvLog).id
           /\ chan = <<>>

\* C2 witness: a poll that ended on a result whose id is older than the id of
\* a result received before it, and older than the last submitted id.
C2_Witness ==
    /\ cop = "poll"
    /\ Len(recvLog) >= 2
    /\ Last(recvLog).id.id < recvLog[Len(recvLog) - 1].id.id
    /\ last_compiler_compiled = Last(recvLog).id
    /\ last_compiler_compiled # last_compiler_submit

\* C3: LSPClient::poll never blocks, returns the batch the reader worker
\* delivered last since the previous poll (none when nothing was delivered),
\* and leaves nothing buffered.
C3_PollLatest ==
    /\ lsp = "live" => ENABLED LspPoll
    /\ lop = "poll" =>
        /\ pollMark[2] = Len(delivered)
        /\ pollResult = IF pollMark[1] < pollMark[2]
                        THEN Some(delivered[pollMark[2]]) ELSE None
        /\ compChan = <<>>

\* C3 witness: two requests, two responses delivered since the previous
\* poll, and the poll returned the second one.
C3_Witness ==
    /\ lop = "poll"
    /\ reqCount = 2
    /\ pollMark = <<0, 2>>
    /\ Len(delivered) = 2
    /\ pollResult = Some(delivered[2])
    /\ delivered[1] # delivered[2]

\* C9: nothing but the initialize request is written to the server, and the
\* writer worker is not past its wait, unless the reader worker has observed
\* a success response with the initialize id; request_completion is not held
\* up meanwhile.
C9_InitGate ==
    /\ (\E i \in 1..Len(wire) : wire[i].kind \in {"didOpen", "completion"})
           => initSeen
    /\ wpc \in {"serve", "mid"} => initSeen
    /\ (lsp = "live" /\ reqCount < MaxReq) => ENABLED RequestCompletion

\* C9 witness: a completion request was written, after the acknowledgment.
C9_Witness ==
    /\ initSeen
    /\ \E i \in 1..Len(wire) : wire[i].kind = "completion"

ReaderErrKinds == {"bad_length", "short_read", "non_utf8"}

\* C10 as stated: once the reader worker has ended on a malformed
\* Content-Length, a short read or a non-UTF8 payload, every poll returns none.
C10_Original ==
    (lsp = "live" /\ lastRead \in ReaderErrKinds /\ lop = "poll")
        => pollResult = None

\* C10 amended: such a message ends the reader worker; the first poll after
\* that drains what was buffered before and every later poll returns none;
\* poll and request_completion stay available to the caller.
C10_InertAfterDrain ==
    /\ lastRead \in ReaderErrKinds => (rpc = "done" /\ rend = "err")
    /\ (lsp = "live" /\ lastRead \in ReaderErrKinds) =>
        /\ (lop = "poll" /\ pollsAfterEnd >= 2) => pollResult = None
        /\ pollsAfterEnd >= 1 => compChan = <<>>
        /\ ENABLED LspPoll
        /\ reqCount < MaxReq => ENABLED RequestCompletion

\* C10 witness: the second poll after the reader worker ended on a non-UTF8
\* payload, with a batch delivered before the end.
C10_Witness ==
    /\ lsp = "live"
    /\ lastRead = "non_utf8"
    /\ rpc = "done"
    /\ delivered # <<>>
    /\ lop = "poll"
    /\ pollsAfterEnd = 2
    /\ pollResult = None

\* C4: a RecordMacro event fed with recording off, then events that yield
\* Nothing or Trans, then an event that yields Return(_, true): the committed
\* macro is exactly that event sequence, the triggering event first, and the
\* recording buffer is empty.
C4_CommitExact ==
    traceDone => (dot_macro = trace /\ recording_macro = <<>> /\ ~is_recording)

\* C4 witness: a commit of a trigger, an edit and the Return.
C4_Witness ==
    /\ traceDone
    /\ Len(trace) = 3
    /\ trace[1].trans = "RecordMacro"
    /\ trace[2].key = "y"
    /\ trace[3].trans = "Return"

\* Feeding events one by one through BufferMode::event, as the frame loop does.
RECURSIVE FeedManually(_, _)
FeedManually(st, evs) ==
    IF evs = <<>> THEN st
    ELSE FeedManually(Dispatch(st, Head(evs), 0)[1], Tail(evs))

C6_CachePopulated ==
    /\ ~drawPanic
    /\ \A r \in Rows :
          /\ r >= watermark => GetLine(CacheState, r) = None
          /\ GetLine(CacheLine(CacheState, text, r), r) # None
    /\ \A r \in drawn : GetLine(CacheState, r) # None

C6_Witness ==
    /\ row_offset > 0
    /\ buffer_changed > 0
    /\ drawn # {}
    /\ recomputed \intersect drawn # {}

\* C7: the dirty sync of a render pass that finds the version changed leaves
\* the watermark at min(watermark, R) for R = core.dirty_from, never higher
\* than before, with the entries of rows >= R gone and those of rows < R as
\* they were; lowering again to R or a higher row changes nothing; a pass that
\* finds the version unchanged leaves the cache as it was.
C7_WatermarkLowering ==
    /\ \A R \in 0..NumLines :
          LET c == DirtyFrom(CacheState, R)
          IN  /\ c.watermark = Min(watermark, R)
              /\ c.watermark <= watermark
              /\ \A r \in Rows : c.entries[r] = IF r >= R THEN None ELSE cache_lines[r]
              /\ \A R2 \in R..NumLines : DirtyFrom(c, R2) = c
    /\ drawn # {} =>
          IF sync.changed
          THEN /\ sync.post.watermark = Min(sync.pre.watermark, sync.arg)
               /\ sync.post.watermark <= sync.pre.watermark
               /\ \A r \in Rows :
                     sync.post.entries[r] =
                         IF r >= sync.arg THEN None ELSE sync.pre.entries[r]
               /\ \A R2 \in sync.arg..NumLines : DirtyFrom(sync.post, R2) = sync.post
          ELSE sync.post = sync.pre

C7_Witness ==
    /\ drawn # {}
    /\ sync.changed
    /\ sync.arg > 0
    /\ sync.arg < sync.pre.watermark
    /\ sync.pre.watermark = NumLines

\* C8: after a render pass that drew and cached the whole document, one insert
\* on row 1 in an entered mode, with or without the Return to Normal after it,
\* raises the version by exactly one, and the next render pass of the whole
\* document lowers the watermark to row 1 and recomputes exactly the rows from
\* row 1 on, not row 0.
C8_EditToRender ==
    scen = 4 =>
        /\ buffer_changed = scenV0 + 1
        /\ sync.changed
        /\ sync.pre.watermark = NumLines
        /\ sync.post.watermark = 1
        /\ recomputed = {r \in Rows : r >= 1}
        /\ 0 \notin recomputed

C8_Witness ==
    /\ scen = 4
    /\ mode = InitMode_("Normal")
    /\ watermark = NumLines

\* C11: request_completion can be taken in every state of the two workers
\* and of the server (it never waits for them), and a call made after the
\* writer worker has exited changes nothing of the client: nothing is queued,
\* nothing is written, the workers, the server and the buffered results are
\* as before.
C11_FireAndForget ==
    /\ [](lsp = "live" /\ reqCount < MaxReq => ENABLED RequestCompletion)
    /\ [][(reqCount' = reqCount + 1 /\ wpc = "done")
             => UNCHANGED <<lsp, proc, wpc, wreq, rpc, rend, initChan, creq,
                            compChan, wire, pollResult>>]_vars

C11_Witness ==
    /\ lsp = "live"
    /\ lop = "request"
    /\ wpc = "done"
    /\ rend = "panic"
    /\ proc = "running"
    /\ reqCount = 2
    /\ creq = <<>>

\* C12: once the client is dropped the server process is dead, and from
\* then on both workers eventually terminate, whatever they were doing at the
\* drop.
C12_Teardown ==
    /\ [](lsp = "dropped" => proc = "dead")
    /\ (lsp = "dropped") ~> (wpc = "done" /\ rpc = "done")

\* C12 witness: both workers are gone after a drop that found the writer
\* worker still waiting for the acknowledgment.
C12_Witness ==
    /\ lsp = "dropped"
    /\ lop = "writer"
    /\ ~initSeen
    /\ wpc = "done"
    /\ rpc = "done"
    /\ rend = "eof"

\* The frame loop fed an event the mode answered with the transition.
Fed(trans) == lastEv' # None /\ lastEv'[1].trans = trans

\* C13 as stated: whenever the recording flag is off the recording buffer is
\* empty.
C13_Original == ~is_recording => recording_macro = <<>>

\* C13 amended: events are appended to the recording buffer only while the
\* flag is set; a Return without commit leaves the committed macro as it was
\* and the flag off, and keeps the recorded events, the Return's own included,
\* in the recording buffer; they are never committed: a Return with the flag
\* off commits nothing and the next RecordMacro replaces them with its
\* triggering event.
C13_DiscardedByNextRecord ==
    [][/\ (Fed("Return") /\ ~lastEv'[1].commit) =>
             /\ dot_macro' = dot_macro
             /\ ~is_recording'
             /\ recording_macro' = IF is_recording
                                   THEN Append(recording_macro, lastEv'[1])
                                   ELSE recording_macro
       /\ (Fed("Return") /\ ~is_recording) =>
             (dot_macro' = dot_macro /\ recording_macro' = recording_macro)
       /\ (Fed("Return") /\ lastEv'[1].commit /\ is_recording) =>
             (dot_macro' = Append(recording_macro, lastEv'[1])
              /\ recording_macro' = <<>>)
       /\ Fed("RecordMacro") => recording_macro' = <<lastEv'[1]>>
       /\ ((Fed("Nothing") \/ Fed("Trans") \/ Fed("Exit")) /\ ~is_recording) =>
             recording_macro' = recording_macro
      ]_vars

\* C13 witness: the flag is off after a Return without commit and the
\* recording buffer still holds the trigger, an edit and the Return.
C13_Witness ==
    /\ ~is_recording
    /\ lastEv # None
    /\ lastEv[1].trans = "Return"
    /\ ~lastEv[1].commit
    /\ Len(recording_macro) = 3
    /\ recording_macro[1].trans = "RecordMacro"
    /\ recording_macro[3] = lastEv[1]

\* C14: every event answered with Return, with or without commit and with
\* or without a status message, leaves the recording flag off and a Normal
\* mode built and initialised for this Return as the active mode; the flag
\* goes from off to on only on an event answered with RecordMacro.
C14_ReturnResetsFlag ==
    [][/\ Fed("Return") =>
             /\ ~is_recording'
             /\ mode' = [kind |-> "Normal", inits |-> 1,
                         message |-> lastEv'[1].message]
       /\ (~is_recording /\ is_recording' /\ ~diverged') => Fed("RecordMacro")
      ]_vars

\* C14 witness: a Return with a status message and no commit ended a
\* recording.
C14_Witness ==
    /\ lastEv # None
    /\ lastEv[1].trans = "Return"
    /\ lastEv[1].message
    /\ ~lastEv[1].commit
    /\ mode.message
    /\ ~is_recording
    /\ Len(recording_macro) >= 2
    /\ recording_macro[1].trans = "RecordMacro"
    /\ Last(recording_macro) = lastEv[1]

\* C15 as stated: when an event answered with DoMacro has been handled and
\* the replay came back, no replayed event was appended to the recording
\* buffer.
C15_Original ==
    (lastEv # None /\ lastEv[1].trans = "DoMacro" /\ ~diverged) => ~refed

\* C16: with the watermark at or past the last line, extend_cache_duration
\* recomputes no line and leaves every entry and the watermark as they are,
\* for every budget and at the top of every frame, however often repeated.
C16_FillFixedPoint ==
    /\ [](watermark >= NumLines =>
            \A b \in 0..(NumLines + 1) :
                /\ ExtendCache(CacheState, text, b) = CacheState
                /\ ExtendCache(ExtendCache(CacheState, text, b), text, b) = CacheState)
    /\ [][(frame = "top" /\ watermark >= NumLines) =>
             /\ cache_lines' = cache_lines
             /\ watermark' = watermark
             /\ recomputed' = {}]_vars

\* C16 witness: the fill has been called at the top of a frame on a cache
\* that an earlier render pass had made fully valid after an edit.
C16_Witness ==
    /\ frame = "recv"
    /\ watermark = NumLines
    /\ buffer_changed > 0
    /\ buffer_update = buffer_changed
    /\ recomputed = {}
    /\ \A r \in Rows : cache_lines[r] # None

\* C17 as stated: when wait_compile_message returns, no job is running, no
\* result is left in the channel and last_compiler_result is the result
\* delivered last.
C17_Original ==
    cop = "wait_return" =>
        /\ ~IsCompiling
        /\ chan = <<>>
        /\ (compiler /\ recvLog # <<>>) =>
               /\ last_compiler_result = Some(Last(recvLog).res)
               /\ last_compiler_compiled = Last(recvLog).id

\* C18: the active mode is the Normal mode of the constructor or a mode whose
\* init hook has run exactly once; every event answered with Trans,
\* RecordMacro or Return installs a mode initialised once; and no event, fed
\* by the frame loop or by a replay, reaches an installed mode whose init hook
\* has not run exactly once.
C18_InitOnceBeforeUse ==
    /\ [](/\ mode = NormalMode \/ mode.inits = 1
          /\ ~badInit)
    /\ [][(Fed("Trans") \/ Fed("RecordMacro") \/ Fed("Return")) => mode'.inits = 1]_vars

\* C18 witness: a replay installed modes and fed them events, and came back.
C18_Witness ==
    /\ lastEv # None
    /\ lastEv[1].trans = "DoMacro"
    /\ ~diverged
    /\ refed
    /\ Len(dot_macro) = 3
    /\ dot_macro[2].trans = "Trans"
    /\ mode.kind = "Normal"
    /\ mode.inits = 1

\* C19: an event fed by the frame loop makes BufferMode::event return true
\* exactly when the mode answers it with Exit; the loop stops exactly when
\* true was returned and goes on to the draw otherwise; a stopped loop takes
\* no further step.
C19_ExitStopsLoop ==
    /\ [](frame = "stopped" <=> exited)
    /\ [][/\ frame # "stopped"
          /\ frame = "recv" =>
                /\ exited' <=> Fed("Exit")
                /\ frame' = IF exited' THEN "stopped" ELSE "draw"]_vars

\* C19 witness: the loop stopped on an Exit fed after a replay and a draw.
C19_Witness ==
    /\ frame = "stopped"
    /\ exited
    /\ lastEv[1].trans = "Exit"
    /\ dot_macro # <<>>
    /\ buffer_changed > 0
    /\ watermark = NumLines

\* C19 witness of the other branch: a replay returned false and the loop
\* went on to the draw.
C19_GoesOn ==
    /\ frame = "draw"
    /\ ~exited
    /\ lastEv # None
    /\ lastEv[1].trans = "DoMacro"

\* C20: after a restart_lsp that found no LSP command configured for the
\* path, or whose spawn of the server failed, the buffer has no client:
\* lsp = none, no server process, no worker, nothing to poll. The call
\* completes whatever the configuration and the spawn do (Buffer::new and
\* set_language, through set_path, return), and the session goes on: the
\* next set_path or restart_lsp can be made.
C20_NoClientNoError ==
    /\ [](lop \in {"restart_no_command", "restart_spawn_failed"} =>
            /\ lsp = "none"
            /\ proc = "dead"
            /\ wpc = "done"
            /\ rpc = "done"
            /\ compChan = <<>>
            /\ \A e \in Exts, ok \in BOOLEAN :
                  /\ ENABLED SetPath(e, ok)
                  /\ ENABLED RestartLsp(path, ok))
    /\ [](lop = "new" => lsp = "none" /\ path = None)
    /\ [](lsp # "dropped" =>
            \A e \in Exts : ENABLED SetPath(e, FALSE) /\ ENABLED RestartLsp(path, FALSE))

\* C20 witness: set_path returned with no client because the spawn failed
\* for a path with a configured command.
C20_Witness ==
    /\ lop = "restart_spawn_failed"
    /\ path = Some("rs")
    /\ ConfigWithDefaultGet("LSP", path)
    /\ lsp = "none"
    /\ proc = "dead"

\* C20 witness of the other case: no command is configured for the path.
C20_NoCommand ==
    /\ lop = "restart_no_command"
    /\ path = Some("txt")
    /\ lsp = "none"

\* The entry of a row computed from the current text of the rows up to it.
Fresh(i) == Some([k \in 1..(i + 1) |-> text[k - 1]])

\* C21 as stated, the equivalence read on the entries the background fill has
\* just computed (no edit has touched any row since): each of them is valid.
C21_Original ==
    (drawn = {} /\ sync = NoSync) =>
        \A i \in recomputed : cache_lines[i] = Fresh(i)

\* C21: for any interleaving of edits, fills and render passes, every entry a
\* render pass has read for a row is computed from the current text of the
\* rows up to it, although the pass overwrites core.dirty_from; the entries
\* below the watermark are all valid once a render pass has synchronised with
\* the document version, and those below core.dirty_from are valid at any time.
C21_NoStaleLineRendered ==
    /\ ~drawPanic => \A i \in drawn : cache_lines[i] = Fresh(i)
    /\ buffer_update = buffer_changed =>
          \A i \in Rows : i < watermark => cache_lines[i] = Fresh(i)
    /\ \A i \in Rows : (i < watermark /\ i < dirty_from) => cache_lines[i] = Fresh(i)

\* C21 witness: a render pass that followed an edit and a background fill
\* made between the edit and the pass has drawn every row, with dirty_from
\* left at the last row.
C21_Witness ==
    /\ drawn = Rows
    /\ ~drawPanic
    /\ sync.changed
    /\ sync.pre.watermark = NumLines
    /\ sync.pre.entries[NumLines - 1] # Fresh(NumLines - 1)
    /\ sync.pre.entries[NumLines - 1] # None
    /\ dirty_from = NumLines - 1
    /\ text[0] > 0

\* The jobs handed to the current worker that are known: those in flight and
\* those whose result was sent.
HandedJobs ==
    {[id |-> jobs[k].id, serial |-> jobs[k].serial] : k \in 1..Len(jobs)}
        \union {[id |-> recvLog[k].id, serial |-> recvLog[k].res.messages] :
                    k \in 1..Len(recvLog)}

\* C22 as stated: no CompileRequest id is handed to the worker twice.
C22_Original ==
    \A a, b \in HandedJobs : a.id = b.id => a.serial = b.serial

\* C22: a Buffer::compile call hands at most one job to the worker, and hands
\* it exactly when a path and a compiler are configured and its id differs
\* from the id submitted last; an id submitted again after another id is
\* handed again. Each job handed yields at most one result, of its own id.
C22_OncePerDistinctSubmission ==
    /\ [][cop' = "compile" =>
            LET cid == lastCall'[1].pair
                hand == cid # last_compiler_submit /\ path # None /\ compiler
            IN  /\ cid.id = buffer_changed
                /\ last_compiler_submit' = cid
                /\ nJobs' = IF hand THEN nJobs + 1 ELSE nJobs
                /\ jobs' = IF hand
                           THEN Append(jobs, [id |-> cid, serial |-> nJobs'])
                           ELSE jobs]_vars
    /\ [][cop' = "worker" =>
            /\ Len(jobs') = Len(jobs) - 1
            /\ Len(recvLog') = Len(recvLog) + 1
            /\ \E k \in 1..Len(jobs) :
                  /\ jobs[k].id = Last(recvLog').id
                  /\ jobs[k].serial = Last(recvLog').res.messages]_vars
    /\ [](/\ \A j, k \in 1..Len(recvLog) :
                recvLog[j].res.messages = recvLog[k].res.messages => j = k
          /\ \A j \in 1..Len(jobs), k \in 1..Len(recvLog) :
                jobs[j].serial # recvLog[k].res.messages)

\* C22 witness: (v, false), (v, true), (v, false) at an unchanged version have
\* put three jobs in flight, the first and the third with the same id.
C22_Witness ==
    /\ cop = "compile"
    /\ Len(jobs) = 3
    /\ jobs[1].id = jobs[3].id
    /\ jobs[2].id # jobs[1].id
    /\ jobs[2].id.id = jobs[1].id.id
    /\ last_compiler_submit = jobs[3].id

\* C23: submitting an id never cancels a job in flight: across a
\* Buffer::compile call the jobs handed earlier stay with the worker, and
\* whatever job is in flight can still finish and send its result. The stale
\* overwrite itself is the reachable state C23_Witness.
C23_NoCancellation ==
    /\ [][cop' = "compile" =>
            /\ Len(jobs') >= Len(jobs)
            /\ \A k \in 1..Len(jobs) : jobs'[k] = jobs[k]
            /\ chan' = chan]_vars
    /\ [](\A k \in 1..Len(jobs) : ENABLED WorkerFinish(k))

\* C23 witness: id A was submitted, then the newer id B; the result of B was
\* received first and the result of A after it, and a poll has left
\* last_compiler_result holding the result of A while last_compiler_submit
\* is B.
C23_Witness ==
    /\ cop = "poll"
    /\ jobs = <<>>
    /\ chan = <<>>
    /\ Len(recvLog) = 2
    /\ recvLog[1].id = last_compiler_submit
    /\ recvLog[2].id.id < recvLog[1].id.id
    /\ recvLog[2].res.messages < recvLog[1].res.messages
    /\ last_compiler_result = Some(recvLog[2].res)
    /\ last_compiler_compiled = recvLog[2].id
    /\ last_compiler_compiled # last_compiler_submit
    /\ buffer_changed = last_compiler_submit.id

\* C24 as stated: every call of BufferMode::event made by the frame loop
\* returns after finitely many nested dispatches, whatever macro is
\* committed.
C24_Original == ~diverged

\* The protocol and framing errors of a message: a header line not of the
\* form key: value, no Content-Length, a Content-Length that is no number, a
\* payload that is not UTF-8, a payload that is not JSON.
FramingErrKinds == {"bad_header", "no_length", "bad_length", "non_utf8", "bad_json"}

\* C25 as stated: a message with a protocol or framing error ends the reader
\* worker.
C25_Original == lastRead \in FramingErrKinds => rpc = "done"

\* C26 as stated: when the frame loop waits for the next input event, the
\* background fill has run exactly once in this frame, with a budget strictly
\* smaller than the frame period.
C26_Original ==
    frame = "recv" => (fill.n = 1 /\ fill.budget < FramePeriod)

\* C27 as stated: whenever a frame ends, last_compiler_submit carries the
\* current document version.
C27_Original ==
    frame = "top" => last_compiler_submit.id = buffer_changed

\* C28 as stated: last_compiler_submit differs from CompileId::default() only
\* when a job was handed to the worker, and a submission of another id than
\* the default made with a path and a compiler configured is a no-op only
\* when a job was handed before it.
C28_Original ==
    /\ last_compiler_submit # CompileIdDefault => nJobs > 0
    /\ (/\ cop = "compile"
        /\ lastCall[1].configured
        /\ lastCall[1].pair # CompileIdDefault
        /\ ~lastCall[1].handed) => nJobs > 0

\* What the writer worker has written after the initialize request.
Written == IF wire = <<>> THEN <<>> ELSE Tail(wire)

\* The requests the writer worker has taken from its channel.
Taken == (Len(Written) + 1) \div 2

\* Request r is on the wire as its notification followed by its request.
OnWire(r) ==
    /\ 2 * r <= Len(Written)
    /\ Written[2 * r - 1] = [kind |-> "didOpen", req |-> r]
    /\ Written[2 * r] = [kind |-> "completion", req |-> r]

\* Request r waits in the channel of a writer worker that is serving or has
\* its acknowledgment at hand.
Pending(r) ==
    /\ \E k \in 1..Len(creq) : creq[k] = r
    /\ wpc \in {"serve", "mid"} \/ (wpc = "wait_init" /\ initChan > 0)

\* C29 as stated: every request that waits in the channel of a writer worker
\* that is alive is eventually written, also when it was made before the
\* acknowledgment.
C29_Original ==
    \A r \in 1..MaxReq :
        ((\E k \in 1..Len(creq) : creq[k] = r) /\ wpc # "done")
            ~> (OnWire(r) \/ wpc = "done" \/ reqCount < r)

\* C29: the wire holds, after the initialize request, the requests in the
\* order of the calls, each exactly once as its document-opened notification
\* immediately followed by its completion request; while the writer worker
\* is alive no call is lost (those not yet written wait in the channel in the
\* order of the calls, also the ones made before the acknowledgment), and
\* every waiting request is eventually written unless the writer worker ends
\* or the client is replaced; the batches wait for poll in the order the
\* reader worker sent them.
C29_InOrderNotLost ==
    /\ [](/\ \A i \in 1..Len(Written) :
                Written[i] = [kind |-> IF i % 2 = 1 THEN "didOpen" ELSE "completion",
                              req |-> (i + 1) \div 2]
          /\ (lsp = "live" /\ wpc # "done") =>
                /\ creq = [j \in 1..(reqCount - Taken) |-> Taken + j]
                /\ (wpc = "mid") <=> (Len(Written) % 2 = 1)
                /\ wpc = "mid" => wreq = Taken
          /\ lsp = "live" =>
                /\ Len(compChan) <= Len(delivered)
                /\ compChan = SubSeq(delivered,
                                     Len(delivered) - Len(compChan) + 1,
                                     Len(delivered)))
    /\ \A r \in 1..MaxReq :
          Pending(r) ~> (OnWire(r) \/ wpc = "done" \/ reqCount < r)

\* C29 witness: two requests, both made before the writer worker was past
\* its wait, are on the wire in the order of the calls.
C29_Witness ==
    /\ lsp = "live"
    /\ wpc = "serve"
    /\ reqCount = 2
    /\ srvCount = 1
    /\ creq = <<>>
    /\ OnWire(1)
    /\ OnWire(2)
    /\ Len(Written) = 4

\* C29 witness of the calls made before the acknowledgment: two requests
\* wait while the writer worker waits.
C29_QueuedBeforeAck ==
    /\ lsp = "live"
    /\ wpc = "wait_init"
    /\ ~initSeen
    /\ creq = <<1, 2>>
====
